---------------------------- MODULE Spec2Model ----------------------------
(***************************************************************************)
(* Model of the identifier subsystem of `f`, a keyboard-driven git file    *)
(* manager: the FNV-1a path fingerprint, the display-id assigner, the      *)
(* prefix resolver (crates/f/src/git_status.rs), the configured alphabet   *)
(* (crates/f/src/config.rs) and the interactive picker with its ephemeral  *)
(* keys (crates/f/src/f.rs).                                               *)
(*                                                                         *)
(* A Rust `char` is its code point (a natural number) and a `String` the   *)
(* sequence of its chars; `String::len` is the UTF-8 byte length, as in    *)
(* Rust.  A u64 is a little-endian sequence of eight 8-bit limbs, so that  *)
(* the 64-bit wrap-around of the hash is computed exactly.                 *)
(***************************************************************************)
EXTENDS Integers, Sequences, FiniteSets, TLC

(***************************************************************************)
(* Characters and strings                                                  *)
(***************************************************************************)
\* The code points of the characters the model uses.
CHAR == [a |-> 97, b |-> 98, c |-> 99, d |-> 100, e |-> 101, f |-> 102,
         g |-> 103, h |-> 104, i |-> 105, k |-> 107, l |-> 108, p |-> 112,
         q |-> 113, s |-> 115, t |-> 116, u |-> 117, v |-> 118, x |-> 120,
         y |-> 121, dash |-> 45,
         dot |-> 46, space |-> 32, qmark |-> 63, M |-> 77, enter |-> 10,
         eacute |-> 233]

\* char::len_utf8 for the code points the model uses (all below U+0800).
len_utf8(c) == IF c < 128 THEN 1 ELSE 2

\* String::len(): the number of bytes of the UTF-8 encoding.
RECURSIVE StrLen(_)
StrLen(s) == IF s = <<>> THEN 0 ELSE len_utf8(Head(s)) + StrLen(Tail(s))

\* str::bytes(): the UTF-8 encoding (one or two bytes per char here).
RECURSIVE bytes(_)
bytes(s) ==
    IF s = <<>> THEN <<>>
    ELSE (IF Head(s) < 128
          THEN <<Head(s)>>
          ELSE <<192 + (Head(s) \div 64), 128 + (Head(s) % 64)>>) \o bytes(Tail(s))

\* str::starts_with(input): an exact, case-sensitive prefix comparison.
starts_with(s, input) ==
    /\ Len(input) <= Len(s)
    /\ SubSeq(s, 1, Len(input)) = input

\* slice.contains(&c)
contains(chars, c) == \E i \in 1..Len(chars) : chars[i] = c

\* The least element of a non-empty set of numbers.
Min(S) == CHOOSE x \in S : \A y \in S : x <= y

(***************************************************************************)
(* 64-bit arithmetic on eight 8-bit limbs, least significant first         *)
(***************************************************************************)
LIMBS == 8
LIMB_BASE == 256

RECURSIVE XorBits(_, _, _)
XorBits(x, y, n) ==
    IF n = 0 THEN 0
    ELSE ((x + y) % 2) + 2 * XorBits(x \div 2, y \div 2, n - 1)

\* hash ^= byte as u64
xor_byte(hash, byte) == [hash EXCEPT ![1] = XorBits(hash[1], byte, 8)]

\* Column k (1-based) of the schoolbook product of two limb vectors.
RECURSIVE ColumnSum(_, _, _, _)
ColumnSum(x, y, k, i) ==
    IF i > k THEN 0
    ELSE x[i] * y[k + 1 - i] + ColumnSum(x, y, k, i + 1)

RECURSIVE MulLimbs(_, _, _, _)
MulLimbs(x, y, k, carry) ==
    IF k > LIMBS THEN <<>>
    ELSE LET t == ColumnSum(x, y, k, 1) + carry
         IN  <<t % LIMB_BASE>> \o MulLimbs(x, y, k + 1, t \div LIMB_BASE)

\* u64::wrapping_mul: the product modulo 2^64.
wrapping_mul(x, y) == MulLimbs(x, y, 1, 0)

\* Long division of a u64 by a small divisor: <<quotient limbs, remainder>>.
RECURSIVE DivLimbs(_, _, _, _)
DivLimbs(x, d, k, rem) ==
    IF k = 0 THEN [quot |-> <<>>, rem |-> rem]
    ELSE LET cur  == rem * LIMB_BASE + x[k]
             rest == DivLimbs(x, d, k - 1, cur % d)
         IN  [quot |-> rest.quot \o <<cur \div d>>, rem |-> rest.rem]

\* hash % base and hash / base on u64
u64_rem(x, d) == DivLimbs(x, d, LIMBS, 0).rem
u64_div(x, d) == DivLimbs(x, d, LIMBS, 0).quot

(***************************************************************************)
(* Fingerprint Hasher (git_status.rs)                                      *)
(***************************************************************************)
\* 0xcbf29ce484222325
FNV_OFFSET == <<37, 35, 34, 132, 228, 156, 242, 203>>
\* 0x100000001b3
FNV_PRIME == <<179, 1, 0, 0, 0, 1, 0, 0>>
HASH_LEN == 12

RECURSIVE FnvFold(_, _)
FnvFold(hash, bs) ==
    IF bs = <<>> THEN hash
    ELSE FnvFold(wrapping_mul(xor_byte(hash, Head(bs)), FNV_PRIME), Tail(bs))

fnv1a_hash(s) == FnvFold(FNV_OFFSET, bytes(s))

RECURSIVE HashDigits(_, _, _)
HashDigits(hash, id_chars, n) ==
    IF n = 0 THEN <<>>
    ELSE <<id_chars[u64_rem(hash, Len(id_chars)) + 1]>>
           \o HashDigits(u64_div(hash, Len(id_chars)), id_chars, n - 1)

\* Fault variant: the loop runs once too few (`for _ in 1..12`).
hash_to_id_chars_11(s, id_chars) == HashDigits(fnv1a_hash(s), id_chars, HASH_LEN - 1)

hash_to_id_chars(s, id_chars) == HashDigits(fnv1a_hash(s), id_chars, HASH_LEN)

(***************************************************************************)
(* Configuration (config.rs)                                               *)
(***************************************************************************)
\* "dfghklsa"
DEFAULT_ID_CHARS == <<CHAR.d, CHAR.f, CHAR.g, CHAR.h, CHAR.k, CHAR.l, CHAR.s, CHAR.a>>

\* Config::id_chars: the configured string's chars when there are at least two
\* of them, the default otherwise.  `configured` is the field Config.id_chars.
Config_id_chars(configured) ==
    IF Len(configured) >= 2 THEN configured ELSE DEFAULT_ID_CHARS

(***************************************************************************)
(* The paths and alphabets of the model                                    *)
(***************************************************************************)
P_dpy == <<CHAR.d, CHAR.dot, CHAR.p, CHAR.y>>
P_i == <<CHAR.i>>
P_u == <<CHAR.u>>
\* The paths of the repository, in the order git prints them.
PathOrder == <<P_dpy, P_i, P_u>>
Paths == {PathOrder[k] : k \in 1..Len(PathOrder)}


\* The configured alphabets: "ab"; "a" (too short); "aa" (a repeated
\* character); "éa" (a two-byte character); "qa" and "aq" (hold the quit key).
ConfigStrings ==
    { <<CHAR.a, CHAR.b>>, <<CHAR.a>>, <<CHAR.a, CHAR.a>>,
      <<CHAR.eacute, CHAR.a>>, <<CHAR.q, CHAR.a>>, <<CHAR.a, CHAR.q>> }

\* Every alphabet Config_id_chars can return for them.
Alphabets == ConfigStrings \cup {DEFAULT_ID_CHARS}

\* hash_to_id_chars is a pure function: its values on the model's paths and
\* alphabets are tabulated once, and read from the table wherever the code
\* calls it on one of them.
FingerprintTable ==
    [a \in Alphabets |-> [p \in Paths |-> hash_to_id_chars(p, a)]]

Fingerprint(s, id_chars) ==
    IF id_chars \in Alphabets /\ s \in Paths
    THEN FingerprintTable[id_chars][s]
    ELSE hash_to_id_chars(s, id_chars)

(***************************************************************************)
(* Display-ID Assigner (git_status.rs)                                     *)
(***************************************************************************)
\* Fault variant: only the entries before i are compared.
CollidesAt_earlier(paths, hashes, i, len) ==
    \E j \in 1..Len(hashes) :
        /\ j < i
        /\ paths[i] # paths[j]
        /\ Len(hashes[j]) >= len
        /\ SubSeq(hashes[i], 1, len) = SubSeq(hashes[j], 1, len)

\* Fault variant: the test `paths[i] != paths[j]` is missing.
CollidesAt_any_path(paths, hashes, i, len) ==
    \E j \in 1..Len(hashes) :
        /\ i # j
        /\ Len(hashes[j]) >= len
        /\ SubSeq(hashes[i], 1, len) = SubSeq(hashes[j], 1, len)

\* Fault variant: only the entries after i are compared.
CollidesAt_later(paths, hashes, i, len) ==
    \E j \in 1..Len(hashes) :
        /\ j > i
        /\ paths[i] # paths[j]
        /\ Len(hashes[j]) >= len
        /\ SubSeq(hashes[i], 1, len) = SubSeq(hashes[j], 1, len)

\* Does some other entry j, of a different path, share hash i's prefix of
\* length len?  (the inner `for (j, other)` loop of generate_ids)
CollidesAt(paths, hashes, i, len) ==
    \E j \in 1..Len(hashes) :
        /\ i # j
        /\ paths[i] # paths[j]
        /\ Len(hashes[j]) >= len
        /\ SubSeq(hashes[i], 1, len) = SubSeq(hashes[j], 1, len)

\* The `'outer: while len <= hash.len()` loop: the value of len on exit.
RECURSIVE GrowLen(_, _, _, _)
GrowLen(paths, hashes, i, len) ==
    IF len <= Len(hashes[i]) /\ CollidesAt(paths, hashes, i, len)
    THEN GrowLen(paths, hashes, i, len + 1)
    ELSE len

\* `paths.iter().map(|p| hash_to_id_chars(p, id_chars)).collect()`
RECURSIVE HashAll(_, _)
HashAll(paths, id_chars) ==
    IF paths = <<>> THEN <<>>
    ELSE <<Fingerprint(Head(paths), id_chars)>> \o HashAll(Tail(paths), id_chars)

\* Fault variant: the search starts at two symbols (`let mut len = 2`).
IdPair_from2(paths, hashes, i) ==
    LET len       == GrowLen(paths, hashes, i, 2)
        final_len == IF len <= Len(hashes[i]) THEN len ELSE Len(hashes[i])
    IN  <<SubSeq(hashes[i], 1, final_len), hashes[i]>>

\* The body of `for (i, hash) in hashes.iter().enumerate()`: the pair pushed.
IdPair(paths, hashes, i) ==
    LET len       == GrowLen(paths, hashes, i, 1)
        final_len == IF len <= Len(hashes[i]) THEN len ELSE Len(hashes[i])
    IN  <<SubSeq(hashes[i], 1, final_len), hashes[i]>>

RECURSIVE IdPairsFrom(_, _, _)
IdPairsFrom(paths, hashes, i) ==
    IF i > Len(hashes) THEN <<>>
    ELSE <<IdPair(paths, hashes, i)>> \o IdPairsFrom(paths, hashes, i + 1)

\* generate_ids: for each path the pair <<display, full_hash>>.
generate_ids(paths, id_chars) ==
    IF paths = <<>> THEN <<>>
    ELSE IdPairsFrom(paths, HashAll(paths, id_chars), 1)

(***************************************************************************)
(* The working tree as `git status --porcelain -uall` reports it           *)
(***************************************************************************)
\* The two status columns XY of a porcelain line.
ST_UNTRACKED == <<CHAR.qmark, CHAR.qmark>>
ST_INDEX == <<CHAR.M, CHAR.space>>
ST_WORKTREE == <<CHAR.space, CHAR.M>>
ST_BOTH == <<CHAR.M, CHAR.M>>
Statuses == {ST_UNTRACKED, ST_INDEX, ST_WORKTREE, ST_BOTH}
\* Modification times in seconds; 0 is what get_mtime yields for a missing file.
Mtimes == {0, 1}
Clean == [clean |-> TRUE]
StatusEntries == [status : Statuses, mtime : Mtimes]

\* The most paths that are changed at once.
MaxFiles == 2

\* The parsed lines of the status output: one <<status, filepath, mtime>> per
\* changed path, in git's order.
RECURSIVE StatusLines(_, _)
StatusLines(tree, k) ==
    IF k > Len(PathOrder) THEN <<>>
    ELSE (IF tree[PathOrder[k]] = Clean THEN <<>>
          ELSE <<[status   |-> tree[PathOrder[k]].status,
                  filepath |-> PathOrder[k],
                  mtime    |-> tree[PathOrder[k]].mtime]>>)
         \o StatusLines(tree, k + 1)

(***************************************************************************)
(* get_all_files (git_status.rs)                                           *)
(***************************************************************************)
\* The rows pushed for one status line onto the vector of file type `t`.
RowsOf(line, t) ==
    IF line.status = ST_UNTRACKED
    THEN (IF t = "Untracked"
          THEN <<[mtime |-> line.mtime, rel_path |-> line.filepath, file_type |-> t]>>
          ELSE <<>>)
    ELSE IF t = "Staged" /\ line.status[1] # CHAR.space
    THEN <<[mtime |-> line.mtime, rel_path |-> line.filepath, file_type |-> t]>>
    ELSE IF t = "Unstaged" /\ line.status[2] # CHAR.space
    THEN <<[mtime |-> line.mtime, rel_path |-> line.filepath, file_type |-> t]>>
    ELSE <<>>

RECURSIVE Collect(_, _)
Collect(lines, t) ==
    IF lines = <<>> THEN <<>>
    ELSE RowsOf(Head(lines), t) \o Collect(Tail(lines), t)

\* Insert f behind every element whose key is not greater: a stable sort step.
RECURSIVE InsertByMtime(_, _)
InsertByMtime(sorted, f) ==
    IF sorted = <<>> THEN <<f>>
    ELSE IF Head(sorted).mtime <= f.mtime
         THEN <<Head(sorted)>> \o InsertByMtime(Tail(sorted), f)
         ELSE <<f>> \o sorted

\* Vec::sort_by_key(|f| f.mtime): stable.
RECURSIVE sort_by_mtime(_)
sort_by_mtime(fs) ==
    IF fs = <<>> THEN <<>>
    ELSE InsertByMtime(sort_by_mtime(SubSeq(fs, 1, Len(fs) - 1)), fs[Len(fs)])

OfType(fs, t) == SelectSeq(fs, LAMBDA f : f.file_type = t)

\* `all_files.iter().map(|(_, p, _, _, _)| p.clone()).collect()`
RECURSIVE PathsOf(_)
PathsOf(all_files) ==
    IF all_files = <<>> THEN <<>>
    ELSE <<Head(all_files).rel_path>> \o PathsOf(Tail(all_files))

\* The loop that builds `result`: each row with the id pair of its index.
RECURSIVE GitFiles(_, _)
GitFiles(all_files, all_ids) ==
    IF all_files = <<>> THEN <<>>
    ELSE <<[mtime     |-> Head(all_files).mtime,
            rel_path  |-> Head(all_files).rel_path,
            file_type |-> Head(all_files).file_type,
            stable_id |-> [display   |-> Head(all_ids)[1],
                           full_hash |-> Head(all_ids)[2]]]>>
           \o GitFiles(Tail(all_files), Tail(all_ids))

\* Result<T>
Ok(v) == [ok |-> TRUE, value |-> v]
Err(msg) == [ok |-> FALSE, error |-> msg]

\* get_git_root
get_git_root(repo) ==
    IF repo.in_repo THEN Ok("git_root") ELSE Err("Not in a git repository")

\* get_all_files: the GitFile list, or the error of get_git_root.  abs_path is
\* git_root joined with rel_path and diff_stats is presentation only; both
\* are left out of the record.
get_all_files(repo, id_chars) ==
    IF ~get_git_root(repo).ok THEN Err(get_git_root(repo).error)
    ELSE
    LET lines     == StatusLines(repo.tree, 1)
        all_files == Collect(lines, "Unstaged") \o Collect(lines, "Untracked")
                        \o Collect(lines, "Staged")
        result    == GitFiles(all_files, generate_ids(PathsOf(all_files), id_chars))
    IN  Ok(sort_by_mtime(OfType(result, "Unstaged"))
             \o sort_by_mtime(OfType(result, "Untracked"))
             \o sort_by_mtime(OfType(result, "Staged")))

(***************************************************************************)
(* Identifier Resolver (git_status.rs)                                     *)
(***************************************************************************)
\* Fault variant: the input is compared with the display field.
matches_display(stable_id, input) == starts_with(stable_id.display, input)

\* StableId::matches
matches(stable_id, input) == starts_with(stable_id.full_hash, input)

NotFound == [kind |-> "NotFound"]
Unique(f) == [kind |-> "Unique", file |-> f]
Ambiguous(n) == [kind |-> "Ambiguous", n |-> n]

\* Fault variant: the first match is returned however many there are.
find_file_first(files, id) ==
    LET matching == SelectSeq(files, LAMBDA f : matches(f.stable_id, id))
    IN  IF Len(matching) = 0 THEN NotFound ELSE Unique(matching[1])

find_file_by_id(files, id) ==
    LET matching == SelectSeq(files, LAMBDA f : matches(f.stable_id, id))
    IN  IF Len(matching) = 0 THEN NotFound
        ELSE IF Len(matching) = 1 THEN Unique(matching[1])
        ELSE Ambiguous(Len(matching))

(***************************************************************************)
(* Ephemeral Key Generator (f.rs, mod interactive)                         *)
(***************************************************************************)
RECURSIVE Pow(_, _)
Pow(b, e) == IF e = 0 THEN 1 ELSE b * Pow(b, e - 1)

\* `while id_chars.len().pow(length) < n { length += 1 }`
RECURSIVE GrowKeyLength(_, _, _)
GrowKeyLength(n, base, length) ==
    IF Pow(base, length) < n THEN GrowKeyLength(n, base, length + 1) ELSE length

\* Fault variant: each digit is pushed at the end (`key.push(...)`).
RECURSIVE KeyOf_push(_, _, _)
KeyOf_push(idx, id_chars, remaining) ==
    IF remaining = 0 THEN <<>>
    ELSE <<id_chars[(idx % Len(id_chars)) + 1]>>
           \o KeyOf_push(idx \div Len(id_chars), id_chars, remaining - 1)

\* The inner `for _ in 0..length` loop: each digit is inserted in front.
RECURSIVE KeyOf(_, _, _)
KeyOf(idx, id_chars, remaining) ==
    IF remaining = 0 THEN <<>>
    ELSE KeyOf(idx \div Len(id_chars), id_chars, remaining - 1)
           \o <<id_chars[(idx % Len(id_chars)) + 1]>>

\* `(0..n).map(|i| ...).collect()`
RECURSIVE KeysFrom(_, _, _, _)
KeysFrom(i, n, id_chars, length) ==
    IF i >= n THEN <<>>
    ELSE <<KeyOf(i, id_chars, length)>> \o KeysFrom(i + 1, n, id_chars, length)

generate_keys(n, id_chars) ==
    IF n = 0 THEN <<>>
    ELSE KeysFrom(0, n, id_chars, GrowKeyLength(n, Len(id_chars), 1))

(***************************************************************************)
(* State                                                                   *)
(***************************************************************************)
VARIABLES
    configured,   \* Config.id_chars, the configured alphabet string
    repo,         \* the working directory: in_repo and the status of each path
    pc,           \* "idle", "collecting", "action" or "exited"
    files,        \* the list get_all_files returned to the running command
    id,           \* the file ID argument of the running command
    verdict,      \* what find_file_by_id (or, without an ID, get_first_actionable_file) returned
    keys,         \* interactive: the generated keys
    prefix,       \* interactive: the characters collected so far
    last_key,     \* interactive: the key event read last
    selected,     \* interactive: the file the picker returned
    outcome,      \* how the command ended: the program exec'ed or the exit
    memo          \* history: an ID the user read off a listing and kept in mind

vars == <<configured, repo, pc, files, id, verdict, keys, prefix, last_key,
          selected, outcome, memo>>

None == [some |-> FALSE]
Some(v) == [some |-> TRUE, value |-> v]
NoVerdict == [kind |-> "None"]
NoFile == [none |-> TRUE]
NoOutcome == [kind |-> "none"]
Exit(code, message) == [kind |-> "exit", code |-> code, message |-> message]
Exec(argv, path) == [kind |-> "exec", argv |-> argv, path |-> path]

\* Key events as crossterm reports them.
Char(c, ctrl) == [code |-> "Char", c |-> c, ctrl |-> ctrl]
Esc == [code |-> "Esc", c |-> 0, ctrl |-> FALSE]
Enter == [code |-> "Enter", c |-> 0, ctrl |-> FALSE]
NoKey == [code |-> "None", c |-> 0, ctrl |-> FALSE]

Range(s) == {s[k] : k \in 1..Len(s)}

id_chars == Config_id_chars(configured)

(***************************************************************************)
(* Inputs                                                                  *)
(***************************************************************************)
\* The longest ID typed on the command line, the full fingerprint aside.
MaxIdLen == 3

\* The upper-case form of a lower-case letter of the model.
Upper(c) == c - 32

\* The IDs a user may type: prefixes of the fingerprints of the repository's
\* paths (changed or not), the same with the first letter in upper case, and
\* the empty string.
IdInputs ==
    LET fps == {Fingerprint(p, id_chars) : p \in Paths}
    IN  UNION {{SubSeq(fp, 1, k) : k \in (0..MaxIdLen) \cup {Len(fp)}} : fp \in fps}
          \cup {<<Upper(fp[1])>> \o SubSeq(fp, 2, 2) : fp \in fps}

\* The keys a user may press in the picker.
PickerKeys ==
    {Char(c, FALSE) : c \in Range(id_chars) \cup {CHAR.q, CHAR.x}}
      \cup {Char(CHAR.c, TRUE), Esc, Enter}

\* The keys a user may press at the action prompt.
ActionKeys ==
    {Char(c, FALSE) : c \in {CHAR.a, CHAR.d, CHAR.s, CHAR.e, CHAR.q, CHAR.x}}
      \cup {Char(CHAR.c, TRUE), Esc}

(***************************************************************************)
(* Init                                                                    *)
(***************************************************************************)
Init ==
    /\ configured \in ConfigStrings
    /\ repo \in [in_repo : BOOLEAN, tree : {[p \in Paths |-> Clean]}]
    /\ pc = "idle"
    /\ files = <<>>
    /\ id = None
    /\ verdict = NoVerdict
    /\ keys = <<>>
    /\ prefix = <<>>
    /\ last_key = NoKey
    /\ selected = NoFile
    /\ outcome = NoOutcome
    /\ memo = None

(***************************************************************************)
(* The working tree changes between two runs of the tool                   *)
(***************************************************************************)
Changed(tree) == {p \in Paths : tree[p] # Clean}

WorkTreeChange(p, e) ==
    /\ pc = "idle"
    /\ repo.in_repo
    /\ repo.tree[p] # e
    /\ Cardinality(Changed(repo.tree) \cup {p}) <= MaxFiles
    /\ repo' = [repo EXCEPT !.tree[p] = e]
    /\ UNCHANGED <<configured, pc, files, id, verdict, keys, prefix, last_key,
                   selected, outcome, memo>>

WorkTreeClean(p) ==
    /\ pc = "idle"
    /\ repo.tree[p] # Clean
    /\ repo' = [repo EXCEPT !.tree[p] = Clean]
    /\ UNCHANGED <<configured, pc, files, id, verdict, keys, prefix, last_key,
                   selected, outcome, memo>>

(***************************************************************************)
(* Commands (f.rs)                                                         *)
(***************************************************************************)
\* cmd_list: `f` or `f list`
CmdList ==
    /\ pc = "idle"
    /\ \E got \in {get_all_files(repo, id_chars)} :
           IF got.ok
           THEN /\ files' = got.value
                /\ outcome' = Exit(0, IF got.value = <<>> THEN "No changed files"
                                                         ELSE "listed")
           ELSE /\ files' = <<>>
                /\ outcome' = Exit(1, got.error)
    /\ pc' = "exited"
    /\ UNCHANGED <<configured, repo, id, verdict, keys, prefix, last_key, selected,
                   memo>>

\* require_file, followed by the exec of cmd_diff
DiffOutcome(v) ==
    IF v.kind = "Unique"
    THEN (IF v.file.file_type = "Untracked"
          THEN Exec(<<"git", "diff", "--no-index", "/dev/null">>, v.file.rel_path)
          ELSE Exec(<<"git", "diff">>, v.file.rel_path))
    ELSE IF v.kind = "Ambiguous"
    THEN Exit(1, "ID matches n files - be more specific")
    ELSE Exit(1, "No matching file found")

\* cmd_diff with a file ID: resolve_file(Some(id)), require_file, exec_git
CmdDiff(input) ==
    /\ pc = "idle"
    /\ id' = Some(input)
    /\ \E got \in {get_all_files(repo, id_chars)} :
           IF got.ok
           THEN \E m \in {find_file_by_id(got.value, input)} :
                    /\ files' = got.value
                    /\ verdict' = m
                    /\ outcome' = DiffOutcome(m)
           ELSE /\ files' = <<>>
                /\ verdict' = NoVerdict
                /\ outcome' = Exit(1, got.error)
    /\ pc' = "exited"
    /\ UNCHANGED <<configured, repo, keys, prefix, last_key, selected, memo>>

\* Fault variant: the first file of the list, whatever its type.
get_first_file(fs) == IF fs = <<>> THEN None ELSE Some(fs[1])

\* get_first_actionable_file: the first unstaged or untracked entry, if any.
get_first_actionable_file(fs) ==
    LET actionable == SelectSeq(fs, LAMBDA f : f.file_type \in {"Unstaged", "Untracked"})
    IN  IF actionable = <<>> THEN None ELSE Some(actionable[1])

\* The subcommands that take a file ID.
FileCommands == {"diff", "staged-diff", "add", "edit"}

\* What cmd_diff, cmd_staged_diff, cmd_add and cmd_edit exec for the file.
CommandExec(name, file) ==
    IF name = "diff"
    THEN (IF file.file_type = "Untracked"
          THEN Exec(<<"git", "diff", "--no-index", "/dev/null">>, file.rel_path)
          ELSE Exec(<<"git", "diff">>, file.rel_path))
    ELSE IF name = "staged-diff"
    THEN Exec(<<"git", "diff", "--staged">>, file.rel_path)
    ELSE IF name = "add"
    THEN Exec(<<"git", "add">>, file.rel_path)
    ELSE Exec(<<"editor">>, file.rel_path)

\* resolve_file(None) and require_file, followed by the command's exec.
NoIdOutcome(name, first) ==
    IF first.some THEN CommandExec(name, first.value)
    ELSE Exit(1, "No matching file found")

\* A file command without a file ID: `f diff`, `f staged-diff`, `f add`, `f edit`.
CmdNoId(name) ==
    /\ pc = "idle"
    /\ id' = None
    /\ \E got \in {get_all_files(repo, id_chars)} :
           IF got.ok
           THEN \E first \in {get_first_actionable_file(got.value)} :
                    /\ files' = got.value
                    /\ verdict' = first
                    /\ outcome' = NoIdOutcome(name, first)
           ELSE /\ files' = <<>>
                /\ verdict' = NoVerdict
                /\ outcome' = Exit(1, got.error)
    /\ pc' = "exited"
    /\ UNCHANGED <<configured, repo, keys, prefix, last_key, selected, memo>>

\* The names and visible aliases of the subcommands that take a file ID, as
\* typed on the command line (also the action words of the ID-first syntax).
Aliases ==
    "diff" :> { <<CHAR.d, CHAR.i, CHAR.f, CHAR.f>>, <<CHAR.d>> }
    @@ "staged-diff" :> { <<CHAR.s, CHAR.t, CHAR.a, CHAR.g, CHAR.e, CHAR.d, CHAR.dash,
                           CHAR.d, CHAR.i, CHAR.f, CHAR.f>>,
                          <<CHAR.s, CHAR.d>> }
    @@ "add" :> { <<CHAR.a, CHAR.d, CHAR.d>>, <<CHAR.a>> }
    @@ "edit" :> { <<CHAR.e, CHAR.d, CHAR.i, CHAR.t>>, <<CHAR.e>>, <<CHAR.v>> }

CommandWords == UNION {Aliases[c] : c \in FileCommands}

\* The subcommand a word names, if any.
CommandOf(word) ==
    IF word \in CommandWords
    THEN Some(CHOOSE c \in FileCommands : word \in Aliases[c])
    ELSE None

\* is_file_id: not empty, and every char is in the alphabet.
is_file_id(s, chars) ==
    /\ s # <<>>
    /\ \A k \in 1..Len(s) : contains(chars, s[k])

\* resolve_file(Some(id)) and require_file, followed by the command's exec.
IdOutcome(name, m) ==
    IF m.kind = "Unique" THEN CommandExec(name, m.file)
    ELSE IF m.kind = "Ambiguous"
    THEN Exit(1, "ID matches n files - be more specific")
    ELSE Exit(1, "No matching file found")

\* handle_id_first after get_all_files: the exit or exec for `f <id> <action>`.
IdFirstOutcome(m, action) ==
    IF m.kind = "Ambiguous" THEN Exit(1, "ID 'id' matches n files - be more specific")
    ELSE IF m.kind = "NotFound" THEN Exit(1, "No file matches ID")
    ELSE IF CommandOf(action).some THEN CommandExec(CommandOf(action).value, m.file)
    ELSE Exit(1, "Unknown action")

\* The two arguments a user may give: a subcommand word with an ID, or an ID
\* with an action word.
MainArgs == (CommandWords \X IdInputs) \cup (IdInputs \X CommandWords)

\* main with two arguments after the program name: the ID-first syntax when
\* the first is a file ID, clap's subcommand parsing otherwise.
Main(args) ==
    /\ pc = "idle"
    /\ \E got \in {get_all_files(repo, id_chars)} :
           IF is_file_id(args[1], id_chars)
           THEN /\ id' = Some(args[1])
                /\ IF got.ok
                   THEN \E m \in {find_file_by_id(got.value, args[1])} :
                            /\ files' = got.value
                            /\ verdict' = m
                            /\ outcome' = IdFirstOutcome(m, args[2])
                   ELSE /\ files' = <<>>
                        /\ verdict' = NoVerdict
                        /\ outcome' = Exit(1, got.error)
           ELSE IF CommandOf(args[1]).some
           THEN /\ id' = Some(args[2])
                /\ IF got.ok
                   THEN \E m \in {find_file_by_id(got.value, args[2])} :
                            /\ files' = got.value
                            /\ verdict' = m
                            /\ outcome' = IdOutcome(CommandOf(args[1]).value, m)
                   ELSE /\ files' = <<>>
                        /\ verdict' = NoVerdict
                        /\ outcome' = Exit(1, got.error)
           ELSE /\ id' = None
                /\ files' = <<>>
                /\ verdict' = NoVerdict
                /\ outcome' = Exit(2, "unrecognized subcommand")
    /\ pc' = "exited"
    /\ UNCHANGED <<configured, repo, keys, prefix, last_key, selected, memo>>

(***************************************************************************)
(* The interactive picker (f.rs, interactive::run)                         *)
(***************************************************************************)
\* `keys.first().map(|k| k.len()).unwrap_or(0)`
key_len(ks) == IF ks = <<>> THEN 0 ELSE StrLen(ks[1])

\* `keys.iter().position(|k| k == &prefix)`: the first index, if any.
position(ks, s) ==
    IF \E k \in 1..Len(ks) : ks[k] = s
    THEN Some(Min({k \in 1..Len(ks) : ks[k] = s}))
    ELSE None

\* interactive::run up to its first wait for a key
Interactive ==
    /\ pc = "idle"
    /\ \E got \in {get_all_files(repo, id_chars)} :
           IF ~got.ok
           THEN /\ files' = <<>>
                /\ keys' = <<>>
                /\ outcome' = Exit(1, got.error)
                /\ pc' = "exited"
           ELSE IF got.value = <<>>
           THEN /\ files' = <<>>
                /\ keys' = <<>>
                /\ outcome' = Exit(0, "No changed files")
                /\ pc' = "exited"
           ELSE /\ files' = got.value
                /\ keys' = generate_keys(Len(got.value), id_chars)
                /\ outcome' = NoOutcome
                /\ pc' = "collecting"
    /\ prefix' = <<>>
    /\ UNCHANGED <<configured, repo, id, verdict, last_key, selected, memo>>

\* The picker's closure returned Some(file): the action prompt is shown.
PickerReturnsSome(file) ==
    /\ selected' = file
    /\ pc' = "action"
    /\ UNCHANGED <<prefix, outcome>>

\* The picker's closure returned None: the screen is cleared and run ends.
PickerReturnsNone ==
    /\ outcome' = Exit(0, "cancelled")
    /\ pc' = "exited"
    /\ UNCHANGED <<prefix, selected>>

\* `KeyCode::Char(c) if id_chars.contains(&c)`
PickerChar(c) ==
    LET pushed  == Append(prefix, c)
        full    == StrLen(pushed) = key_len(keys)
        found   == position(keys, pushed)
        cleared == IF full THEN <<>> ELSE pushed
    IN  IF full /\ found.some
        THEN PickerReturnsSome(files[found.value])
        ELSE /\ prefix' = IF \E k \in 1..Len(keys) : starts_with(keys[k], cleared)
                          THEN cleared
                          ELSE <<>>
             /\ UNCHANGED <<pc, selected, outcome>>

\* Fault variant: a key that matches no arm ends the picker (`_ => return Ok(None)`).
KeyPress_cancels(ev) ==
    /\ pc = "collecting"
    /\ last_key' = ev
    /\ IF ev.ctrl /\ ev.code = "Char" /\ ev.c = CHAR.c
       THEN PickerReturnsNone
       ELSE IF ev.code = "Char" /\ ev.c = CHAR.q
       THEN PickerReturnsNone
       ELSE IF ev.code = "Char" /\ contains(id_chars, ev.c)
       THEN PickerChar(ev.c)
       ELSE IF ev.code = "Esc"
       THEN /\ prefix' = <<>>
            /\ UNCHANGED <<pc, selected, outcome>>
       ELSE PickerReturnsNone
    /\ UNCHANGED <<configured, repo, files, id, verdict, keys, memo>>

\* Fault variant: the alphabet arm stands before the arm of the quit key.
KeyPress_alphabet_first(ev) ==
    /\ pc = "collecting"
    /\ last_key' = ev
    /\ IF ev.ctrl /\ ev.code = "Char" /\ ev.c = CHAR.c
       THEN PickerReturnsNone
       ELSE IF ev.code = "Char" /\ contains(id_chars, ev.c)
       THEN PickerChar(ev.c)
       ELSE IF ev.code = "Char" /\ ev.c = CHAR.q
       THEN PickerReturnsNone
       ELSE IF ev.code = "Esc"
       THEN /\ prefix' = <<>>
            /\ UNCHANGED <<pc, selected, outcome>>
       ELSE UNCHANGED <<pc, prefix, selected, outcome>>
    /\ UNCHANGED <<configured, repo, files, id, verdict, keys, memo>>

\* Fault variant: the Esc arm redraws the list and keeps the prefix.
KeyPress_esc_keeps(ev) ==
    /\ pc = "collecting"
    /\ last_key' = ev
    /\ IF ev.ctrl /\ ev.code = "Char" /\ ev.c = CHAR.c
       THEN PickerReturnsNone
       ELSE IF ev.code = "Char" /\ ev.c = CHAR.q
       THEN PickerReturnsNone
       ELSE IF ev.code = "Char" /\ contains(id_chars, ev.c)
       THEN PickerChar(ev.c)
       ELSE UNCHANGED <<pc, prefix, selected, outcome>>
    /\ UNCHANGED <<configured, repo, files, id, verdict, keys, memo>>

\* One key event read by the picker's loop.
KeyPress(ev) ==
    /\ pc = "collecting"
    /\ last_key' = ev
    /\ IF ev.ctrl /\ ev.code = "Char" /\ ev.c = CHAR.c
       THEN PickerReturnsNone
       ELSE IF ev.code = "Char" /\ ev.c = CHAR.q
       THEN PickerReturnsNone
       ELSE IF ev.code = "Char" /\ contains(id_chars, ev.c)
       THEN PickerChar(ev.c)
       ELSE IF ev.code = "Esc"
       THEN /\ prefix' = <<>>
            /\ UNCHANGED <<pc, selected, outcome>>
       ELSE UNCHANGED <<pc, prefix, selected, outcome>>
    /\ UNCHANGED <<configured, repo, files, id, verdict, keys, memo>>

\* display_files: the indices of the entries shown, those whose key starts
\* with the prefix collected.
Displayed == {k \in 1..Len(keys) : starts_with(keys[k], prefix)}

\* The poll timed out, or the event read was not a key event.
PollTimeout ==
    /\ pc \in {"collecting", "action"}
    /\ UNCHANGED vars

\* The command run for an action character.
ActionOutcome(action, file) ==
    IF action = CHAR.a THEN Exec(<<"git", "add">>, file.rel_path)
    ELSE IF action = CHAR.d THEN Exec(<<"git", "diff">>, file.rel_path)
    ELSE IF action = CHAR.s THEN Exec(<<"git", "diff", "--staged">>, file.rel_path)
    ELSE Exec(<<"editor">>, file.rel_path)

\* One key event read at the action prompt.
ActionKey(ev) ==
    /\ pc = "action"
    /\ last_key' = ev
    /\ IF (ev.code = "Char" /\ ev.c = CHAR.q) \/ ev.code = "Esc"
       THEN /\ outcome' = Exit(0, "no action")
            /\ pc' = "exited"
       ELSE IF ev.code = "Char" /\ ev.c \in {CHAR.a, CHAR.d, CHAR.s, CHAR.e}
       THEN /\ outcome' = IF get_git_root(repo).ok
                          THEN ActionOutcome(ev.c, selected)
                          ELSE Exit(1, get_git_root(repo).error)
            /\ pc' = "exited"
       ELSE UNCHANGED <<pc, outcome>>
    /\ UNCHANGED <<configured, repo, files, id, verdict, keys, prefix, selected,
                   memo>>

\* The process has ended; nothing of it is kept for the next run.
Return ==
    /\ pc = "exited"
    /\ pc' = "idle"
    /\ files' = <<>>
    /\ id' = None
    /\ verdict' = NoVerdict
    /\ keys' = <<>>
    /\ prefix' = <<>>
    /\ last_key' = NoKey
    /\ selected' = NoFile
    /\ outcome' = NoOutcome
    /\ UNCHANGED <<configured, repo, memo>>

Next ==
    \/ \E p \in Paths, e \in StatusEntries : WorkTreeChange(p, e)
    \/ \E p \in Paths : WorkTreeClean(p)
    \/ CmdList
    \/ \E input \in IdInputs : CmdDiff(input)
    \/ \E name \in FileCommands : CmdNoId(name)
    \/ \E args \in MainArgs : Main(args)
    \/ Interactive
    \/ \E ev \in PickerKeys : KeyPress(ev)
    \/ \E ev \in ActionKeys : ActionKey(ev)
    \/ PollTimeout
    \/ Return

Spec == Init /\ [][Next]_vars

(***************************************************************************)
(* Repeated runs with a user who keeps an ID in mind                       *)
(***************************************************************************)
\* The user reads the listing and keeps in mind, for one listed file, a prefix
\* of its fingerprint: the DisplayId shown, or a shorter or longer prefix.
Memorize(i, k) ==
    /\ pc = "exited"
    /\ id = None
    /\ i \in 1..Len(files)
    /\ k \in 1..Len(files[i].stable_id.full_hash)
    /\ memo' = Some([path      |-> files[i].rel_path,
                     id        |-> SubSeq(files[i].stable_id.full_hash, 1, k),
                     display   |-> files[i].stable_id.display,
                     full_hash |-> files[i].stable_id.full_hash])
    /\ memo' # memo
    /\ UNCHANGED <<configured, repo, pc, files, id, verdict, keys, prefix, last_key,
                   selected, outcome>>

\* The lengths of the prefixes kept in mind, the DisplayId's length aside.
MemoLens(f) ==
    {Len(f.stable_id.display)} \cup (1..MaxIdLen) \cup {HASH_LEN}

\* A later run with the ID kept in mind.
CmdDiffMemorized ==
    /\ memo.some
    /\ CmdDiff(memo.value.id)

NextCompat ==
    \/ \E p \in Paths, e \in StatusEntries : WorkTreeChange(p, e)
    \/ \E p \in Paths : WorkTreeClean(p)
    \/ CmdList
    \/ \E i \in 1..Len(files) : \E k \in MemoLens(files[i]) : Memorize(i, k)
    \/ CmdDiffMemorized
    \/ Return

SpecCompat == Init /\ [][NextCompat]_vars

(***************************************************************************)
(* Repeated listings of a changing working tree                            *)
(***************************************************************************)
\* The user reads the listing and keeps in mind the DisplayId shown for one
\* listed file, the paths listed with it, and which path was listed first.
MemorizeListing(i) ==
    /\ pc = "exited"
    /\ id = None
    /\ verdict = NoVerdict
    /\ i \in 1..Len(files)
    /\ memo' = Some([path    |-> files[i].rel_path,
                     display |-> files[i].stable_id.display,
                     listed  |-> {files[j].rel_path : j \in 1..Len(files)},
                     head    |-> files[1].rel_path])
    /\ memo' # memo
    /\ UNCHANGED <<configured, repo, pc, files, id, verdict, keys, prefix, last_key,
                   selected, outcome>>

NextListings ==
    \/ \E p \in Paths, e \in StatusEntries : WorkTreeChange(p, e)
    \/ \E p \in Paths : WorkTreeClean(p)
    \/ CmdList
    \/ \E i \in 1..Len(files) : MemorizeListing(i)
    \/ Return

SpecListings == Init /\ [][NextListings]_vars

(***************************************************************************)
(* Properties                                                              *)
(***************************************************************************)
IsPrefix(s, t) == Len(s) <= Len(t) /\ \A k \in 1..Len(s) : s[k] = t[k]

\* The entries of the list the running command holds.
Idx == 1..Len(files)
PathAt(i) == files[i].rel_path
FP(i) == files[i].stable_id.full_hash
DID(i) == files[i].stable_id.display

\* The alphabet is what the components are specified for: distinct characters.
DistinctChars(a) == \A i, j \in 1..Len(a) : i # j => a[i] # a[j]

\* A command has resolved the ID it was given.
Resolved == pc = "exited" /\ id.some /\ verdict # NoVerdict

\* C1 (Minimality): a DisplayId of more than one symbol cannot lose its last
\* symbol: the DisplayId without it is also the start of the fingerprint of an
\* entry of another path.
C1_Minimality ==
    \A i \in Idx :
        Len(DID(i)) > 1 =>
            \E j \in Idx :
                /\ PathAt(j) # PathAt(i)
                /\ SubSeq(FP(i), 1, Len(DID(i)) - 1) = SubSeq(FP(j), 1, Len(DID(i)) - 1)

\* A listed entry whose DisplayId is longer than one symbol and shorter than
\* the fingerprint.
C1_Witness == \E i \in Idx : Len(DID(i)) > 1 /\ Len(DID(i)) < Len(FP(i))

\* C2 (Uniqueness), as claimed: entries of different paths never have the
\* same DisplayId, and no DisplayId is a prefix of the fingerprint of an
\* entry of another path.  Stated for alphabets of distinct characters, where
\* it fails already.
C2_Uniqueness ==
    DistinctChars(id_chars) =>
        \A i, j \in Idx :
            PathAt(i) # PathAt(j) => DID(i) # DID(j) /\ ~IsPrefix(DID(i), FP(j))

\* C2 amended: the same for entries of different paths whose fingerprints
\* differ; two paths with one and the same fingerprint both get the whole
\* fingerprint as DisplayId.
C2_UniquenessUpToCollision ==
    \A i, j \in Idx :
        PathAt(i) # PathAt(j) =>
            IF FP(i) # FP(j)
            THEN DID(i) # DID(j) /\ ~IsPrefix(DID(i), FP(j))
            ELSE DID(i) = FP(i) /\ DID(j) = FP(j)

\* Two listed paths whose fingerprints start alike and differ later.
C2_Witness ==
    \E i, j \in Idx :
        /\ PathAt(i) # PathAt(j)
        /\ FP(i) # FP(j)
        /\ FP(i)[1] = FP(j)[1]
        /\ Len(DID(i)) > 1

\* C3 (Resolution monotonicity), as claimed: an ID that is the first k symbols
\* of a listed file's fingerprint, and starts the fingerprint of no entry of
\* another path, resolves to Unique with that file's path.  Stated for
\* alphabets of distinct characters, where it fails already.
C3_ResolutionMonotone ==
    (Resolved /\ DistinctChars(id_chars)) =>
        \A i \in Idx : \A k \in 1..12 :
            ( /\ k <= Len(FP(i))
              /\ id.value = SubSeq(FP(i), 1, k)
              /\ \A j \in Idx : PathAt(j) # PathAt(i) => ~IsPrefix(id.value, FP(j)) )
            => (verdict.kind = "Unique" /\ verdict.file.rel_path = PathAt(i))

\* C4 (Resolver classification): the verdict is decided by the number of
\* entries whose full fingerprint starts with the ID, whatever the DisplayIds.
Matching == {i \in Idx : IsPrefix(id.value, FP(i))}

C4_Classification ==
    Resolved =>
        IF Cardinality(Matching) = 0 THEN verdict = NotFound
        ELSE IF Cardinality(Matching) = 1
        THEN verdict = Unique(files[CHOOSE i \in Matching : TRUE])
        ELSE verdict = Ambiguous(Cardinality(Matching))

\* An ID longer than the DisplayId shown that resolves to its file, with other
\* entries in the list.
C4_Witness ==
    /\ Resolved
    /\ verdict.kind = "Unique"
    /\ Len(id.value) > Len(verdict.file.stable_id.display)
    /\ Len(files) > 1

\* C5 (Backward compatibility): while a path is listed its fingerprint is the
\* one it had when the user kept its ID in mind, and resolving that ID yields
\* Unique with that path or Ambiguous, never NotFound and never another file.
C5_BackwardCompatible ==
    memo.some =>
        /\ \A i \in Idx :
              PathAt(i) = memo.value.path => FP(i) = memo.value.full_hash
        /\ ( /\ Resolved
             /\ id.value = memo.value.id
             /\ \E i \in Idx : PathAt(i) = memo.value.path )
           => /\ verdict.kind \in {"Unique", "Ambiguous"}
              /\ verdict.kind = "Unique" => verdict.file.rel_path = memo.value.path

\* The ID kept in mind was the DisplayId then shown, the set of changed files
\* is another one now, the DisplayId is another one, and the ID still
\* resolves to the file.
C5_Witness ==
    /\ memo.some
    /\ Resolved
    /\ id.value = memo.value.id
    /\ memo.value.id = memo.value.display
    /\ verdict.kind = "Unique"
    /\ verdict.file.rel_path = memo.value.path
    /\ verdict.file.stable_id.display # memo.value.display

\* The least length at which entry i's fingerprint differs from those of the
\* entries of other paths; the whole length if there is none.
MinLenAmongOthers(i) ==
    LET others == {FP(j) : j \in {j \in Idx : PathAt(j) # PathAt(i)}}
        good   == {len \in 1..Len(FP(i)) :
                     \A o \in others : SubSeq(o, 1, len) # SubSeq(FP(i), 1, len)}
    IN  IF good = {} THEN Len(FP(i)) ELSE Min(good)

\* C6 (Duplicate paths): every entry's DisplayId is the one computed against
\* the entries of other paths alone, the entries of one path have the same
\* DisplayId and fingerprint, and a list of one path has DisplayIds of length 1.
C6_DuplicatesDoNotCollide ==
    \A i \in Idx :
        /\ DID(i) = SubSeq(FP(i), 1, MinLenAmongOthers(i))
        /\ \A j \in Idx : PathAt(j) = PathAt(i) => DID(j) = DID(i) /\ FP(j) = FP(i)
        /\ (\A j \in Idx : PathAt(j) = PathAt(i)) => Len(DID(i)) = 1

\* A list with one path twice and another path.
C6_Witness ==
    \E i, j, k \in Idx :
        /\ i # j
        /\ PathAt(i) = PathAt(j)
        /\ PathAt(k) # PathAt(i)

\* C7 (Fingerprint shape): every fingerprint has 12 symbols of the alphabet,
\* equal for equal paths; the DisplayId is a prefix of it of 1 to 12 symbols,
\* the whole of it when another path has the same fingerprint.
C7_FingerprintShape ==
    \A i \in Idx :
        /\ Len(FP(i)) = 12
        /\ \A k \in 1..Len(FP(i)) : FP(i)[k] \in Range(id_chars)
        /\ Len(DID(i)) \in 1..12
        /\ IsPrefix(DID(i), FP(i))
        /\ \A j \in Idx :
              /\ PathAt(j) = PathAt(i) => FP(j) = FP(i)
              /\ (PathAt(j) # PathAt(i) /\ FP(j) = FP(i)) => DID(i) = FP(i)

\* Two paths with the same fingerprint under an alphabet of distinct characters.
C7_Witness ==
    \E i, j \in Idx :
        /\ PathAt(i) # PathAt(j)
        /\ FP(i) = FP(j)
        /\ DID(i) = FP(i)
        /\ \E k \in 1..Len(FP(i)) : FP(i)[k] # FP(i)[1]

\* C8 (Key bijection), as claimed: the picker's keys are as many as the files,
\* pairwise distinct and of one length L, the least with |alphabet|^L >= n.
C8_KeyBijection ==
    keys # <<>> =>
        /\ Len(keys) = Len(files)
        /\ \A i, j \in 1..Len(keys) : i # j => keys[i] # keys[j]
        /\ \A i \in 1..Len(keys) : Len(keys[i]) = Len(keys[1])
        /\ Pow(Len(id_chars), Len(keys[1])) >= Len(keys)
        /\ Len(keys[1]) >= 1
        /\ Len(keys[1]) > 1 => Pow(Len(id_chars), Len(keys[1]) - 1) < Len(keys)

\* C9 (Narrowing selects the right file), as claimed, one keystroke at a time:
\* when the prefix collected is the start of key i, typing key i's next
\* character leads to the longer prefix, and with the last character to
\* Selected with the file at index i.  Stated for alphabets of distinct
\* characters, where it fails already.
C9_TypingKeySelects ==
    [][ \A i \in 1..Len(keys) :
          ( /\ DistinctChars(id_chars)
            /\ pc = "collecting"
            /\ Len(prefix) < Len(keys[i])
            /\ IsPrefix(prefix, keys[i])
            /\ KeyPress(Char(keys[i][Len(prefix) + 1], FALSE)) )
          => IF Len(prefix) + 1 = Len(keys[i])
             THEN pc' = "action" /\ selected' = files[i]
             ELSE pc' = "collecting" /\ prefix' = Append(prefix, keys[i][Len(prefix) + 1])
      ]_vars

\* A character key outside the alphabet that is no clear or cancel signal.
IsOutsideChar(ev) ==
    /\ ev.code = "Char"
    /\ ~ev.ctrl
    /\ ev.c \notin Range(id_chars)
    /\ ev.c # CHAR.q

\* The narrowing machine is in its terminal state Cancelled.
Cancelled == pc = "exited" /\ selected = NoFile /\ outcome = Exit(0, "cancelled")

\* C10, as claimed: once such a character is typed the machine is Cancelled.
C10_OutsideCharCancels ==
    (keys # <<>> /\ selected = NoFile /\ IsOutsideChar(last_key)) => Cancelled

\* C10 amended: such a character is ignored: the machine stays in
\* Collecting with the same prefix, and nothing is selected or run.
C10_OutsideCharIgnored ==
    [][ \A ev \in PickerKeys :
          (IsOutsideChar(ev) /\ KeyPress(ev))
          => /\ pc' = "collecting"
             /\ prefix' = prefix
             /\ selected' = selected
             /\ outcome' = outcome
      ]_vars

\* Such a character was typed after the start of a key, and the start is kept.
C10_Witness ==
    /\ pc = "collecting"
    /\ IsOutsideChar(last_key)
    /\ prefix # <<>>

\* C11 (Invalid continuation resets), as claimed: in Collecting, an alphabet
\* character that makes the prefix neither a generated key nor the start of
\* one leads to Collecting with the empty prefix; nothing ends, nothing is
\* selected.  Stated for alphabets of distinct characters, where it fails
\* already.
C11_InvalidContinuationResets ==
    [][ \A c \in Range(id_chars) :
          ( /\ DistinctChars(id_chars)
            /\ pc = "collecting"
            /\ KeyPress(Char(c, FALSE))
            /\ \A k \in 1..Len(keys) : ~IsPrefix(Append(prefix, c), keys[k]) )
          => /\ pc' = "collecting"
             /\ prefix' = <<>>
             /\ selected' = selected
             /\ outcome' = outcome
      ]_vars

\* The cancel signals of the picker: q and Ctrl-C.
CancelSignals == {Char(CHAR.q, FALSE), Char(CHAR.c, TRUE)}

\* C12 (Cancellation): in Collecting, whatever the prefix, a cancel signal
\* leads at once to Cancelled with no file selected; from Cancelled the run
\* only ends, and no command is executed.
C12_CancelHonored ==
    [][ /\ \A ev \in CancelSignals :
              (pc = "collecting" /\ KeyPress(ev))
              => /\ pc' = "exited"
                 /\ selected' = NoFile
                 /\ outcome' = Exit(0, "cancelled")
        /\ Cancelled => (pc' = "idle" /\ outcome' = NoOutcome /\ selected' = NoFile)
      ]_vars

\* The picker was cancelled with q after the start of a key had been typed.
C12_Witness ==
    /\ Cancelled
    /\ last_key = Char(CHAR.q, FALSE)
    /\ prefix # <<>>

\* C13 (Alphabet validity), as claimed: the alphabet handed to the hasher,
\* the assigner, the resolver and the key generator of a running command has
\* at least two characters and no character twice, and is the default when
\* the configured string is not such an alphabet.
C13_AlphabetValid ==
    pc # "idle" =>
        /\ Len(id_chars) >= 2
        /\ DistinctChars(id_chars)
        /\ ~(Len(configured) >= 2 /\ DistinctChars(configured))
              => id_chars = DEFAULT_ID_CHARS

\* A command has chosen its file without a file ID.
ResolvedNoId == pc = "exited" /\ id = None /\ verdict \in {None} \cup {Some(files[i]) : i \in Idx}

\* The entries of a type, in list order.
IdxOfType(t) == {i \in Idx : files[i].file_type = t}

C15_StagedDiffDefaultsToStaged ==
    [][ LET staged == {i \in 1..Len(files') : files'[i].file_type = "Staged"}
        IN  (CmdNoId("staged-diff") /\ staged # {})
            => outcome' = Exec(<<"git", "diff", "--staged">>, files'[Min(staged)].rel_path)
      ]_vars

\* C16 (Subcommand-first invocation), as claimed: `f <subcommand> <id>`, for
\* every name and visible alias of diff, staged-diff, add and edit and every
\* ID, runs that subcommand on the file find_file_by_id resolves from the ID.
C16_SubcommandFirst ==
    [][ \A c \in FileCommands : \A word \in Aliases[c] : \A input \in IdInputs :
          (repo.in_repo /\ Main(<<word, input>>))
          => /\ id' = Some(input)
             /\ verdict' = find_file_by_id(files', input)
             /\ outcome' = IdOutcome(c, find_file_by_id(files', input))
      ]_vars

\* The place of a character in an alphabet of distinct characters.
PlaceOf(c) == CHOOSE j \in 1..Len(id_chars) : id_chars[j] = c

\* s comes strictly before t in the lexicographic order of the alphabet.
LexLess(s, t) ==
    \E k \in 1..Len(s) :
        /\ k <= Len(t)
        /\ \A m \in 1..(k - 1) : s[m] = t[m]
        /\ PlaceOf(s[k]) < PlaceOf(t[k])

\* C17 (Positional key encoding): under an alphabet A of distinct characters
\* key i (from 0) is the L-digit base-|A| numeral of i, most significant
\* digit first, digit d written A[d]; the keys are in strictly increasing
\* lexicographic order.
C17_PositionalKeys ==
    (keys # <<>> /\ DistinctChars(id_chars)) =>
        LET base == Len(id_chars)
            L    == Len(keys[1])
        IN  /\ \A i \in 1..Len(keys) :
                  /\ Len(keys[i]) = L
                  /\ \A k \in 1..L :
                        keys[i][k] = id_chars[(((i - 1) \div Pow(base, L - k)) % base) + 1]
            /\ \A i \in 1..(Len(keys) - 1) : LexLess(keys[i], keys[i + 1])

\* The picker holds three or more keys, of two characters, over an alphabet
\* of distinct characters.
C17_Witness ==
    /\ DistinctChars(id_chars)
    /\ Len(keys) >= 3
    /\ Len(keys[1]) = 2
    /\ keys[1] # keys[2]

\* C18 (Clear): in Collecting, whatever the prefix, Esc leads to Collecting
\* with the empty prefix; nothing ends or is selected, the keys and the file
\* list stay as they are, and every file is shown again.
C18_ClearResets ==
    [][ (pc = "collecting" /\ KeyPress(Esc))
        => /\ pc' = "collecting"
           /\ prefix' = <<>>
           /\ keys' = keys
           /\ files' = files
           /\ selected' = selected
           /\ outcome' = outcome
           /\ Displayed' = 1..Len(files)
      ]_vars

\* Esc was the last key read by a picker with keys of two characters, and the
\* picker goes on with the empty prefix.
C18_Witness ==
    /\ pc = "collecting"
    /\ last_key = Esc
    /\ prefix = <<>>
    /\ Len(keys[1]) = 2

\* C19 (Narrowing invariant), as claimed: while the picker has not ended, the
\* prefix is strictly shorter than the keys' length L and is the start of a
\* generated key, so that some file is shown.  Stated for alphabets of
\* distinct characters, where it fails already.
C19_NarrowingInvariant ==
    (pc = "collecting" /\ DistinctChars(id_chars)) =>
        /\ Len(prefix) < Len(keys[1])
        /\ \E k \in 1..Len(keys) : IsPrefix(prefix, keys[k])
        /\ Displayed # {}

\* The paths of the list the running command holds.
Listed == {PathAt(i) : i \in Idx}

\* C20 (Monotone DisplayIds): for a path listed earlier and listed now, when
\* the paths listed now include those listed then the DisplayId shown then is
\* a prefix of the one shown now, when they are included in those listed then
\* the one shown now is a prefix of the one shown then; with the same paths,
\* in whatever order, the DisplayId is the same.
C20_DisplayIdMonotone ==
    (memo.some /\ pc = "exited") =>
        \A i \in Idx :
            PathAt(i) = memo.value.path =>
                /\ memo.value.listed \subseteq Listed => IsPrefix(memo.value.display, DID(i))
                /\ Listed \subseteq memo.value.listed => IsPrefix(DID(i), memo.value.display)
                /\ Listed = memo.value.listed => DID(i) = memo.value.display

\* A path's DisplayId has grown with the paths listed, and is shown again
\* unchanged for the same paths in another order.
C20_Witness ==
    /\ memo.some
    /\ pc = "exited"
    /\ \E i \in Idx :
          /\ PathAt(i) = memo.value.path
          /\ \/ /\ memo.value.listed \subseteq Listed
                /\ memo.value.listed # Listed
                /\ Len(DID(i)) > Len(memo.value.display)
             \/ /\ memo.value.listed = Listed
                /\ Len(DID(i)) > 1
                /\ memo.value.head # PathAt(1)

=============================================================================
